---- MODULE Spec2Model ----
(***************************************************************************)
(* Connection lifecycle of the Snappjack SDK ConnectionManager              *)
(* (src/unnamed/part_000, lines 1-540) together with the part of the        *)
(* Snappjack dispatcher that drives its status (src/unnamed/part_002).      *)
(*                                                                          *)
(* One action is one run-to-completion turn of the JavaScript event loop:   *)
(* a socket callback, a timer callback, the continuation of an await on the *)
(* token provider or on the credential-validation fetch, or a call made by  *)
(* the application, each followed by the microtasks it queues.              *)
(***************************************************************************)
EXTENDS Integers, Sequences, FiniteSets, TLC

\* ------------------------------------------------------------------ bounds
\* connect() calls past the early return: the application's call and two
\* retries, or calls that overlap
MaxCalls == 3
\* largest config.maxReconnectAttempts: a retry can fail with budget left
MaxMaxReconnectAttempts == 2
\* handlers suspended on validateCredentials at a time, per handler
MaxAwaiting == 1
\* tool handlers running at a time: a second call can arrive while the
\* first one's handler is pending
MaxPending == 2

\* --------------------------------------------------------------- constants
NORMAL_CLOSURE == 1000
PROTOCOL_ERROR == 1002
ABNORMAL_CLOSURE == 1006
POLICY_VIOLATION == 1008
SERVER_ERROR == 1011
\* a code of the default branch of classifyConnectionError
OTHER_CODE == 4000

CloseCodes ==
  {NORMAL_CLOSURE, PROTOCOL_ERROR, ABNORMAL_CLOSURE, POLICY_VIOLATION, SERVER_ERROR, OTHER_CODE}

\* close events: a code, and whether the reason text contains "auth" or
\* "unauthorized" (read for the codes of the default branch only)
CloseEvents ==
  {<<code, FALSE>> : code \in CloseCodes} \cup {<<OTHER_CODE, TRUE>>}

ReadyState == {"CONNECTING", "OPEN", "CLOSING", "CLOSED"}

SnappjackStatus == {"disconnected", "connected", "bridged", "error"}

CredentialValidationResult == {"valid", "invalid", "unreachable"}

\* what the text of a rejection matches in classifyReconnectionError
ErrorText == {"network", "auth", "network auth", "other"}

\* the text contains fetch, network, ECONNREFUSED, ENOTFOUND or timeout
NetworkSignature(errorMessage) == errorMessage \in {"network", "network auth"}

\* the text contains auth, unauthorized, or invalid and token
AuthSignature(errorMessage) == errorMessage \in {"auth", "network auth"}

\* the agent sessions of this model: one agent attaches and detaches
Sessions == {"agent-session"}

VARIABLES
  autoReconnect,         \* config.autoReconnect
  maxReconnectAttempts,  \* config.maxReconnectAttempts
  reconnectInterval,     \* config.reconnectInterval, in milliseconds
  testMode,              \* config.testMode, "undefined" when not given
  ws,                    \* this.ws: 0 is null, else the index of a call's socket
  status,                \* this.status
  reconnectTimer,        \* this.reconnectTimer: 0 is null, else a timer handle
  timers,                \* timer handles that are scheduled and not yet fired or cleared
  reconnectAttempts,     \* this.reconnectAttempts
  receivedUserApiKey,    \* this.receivedUserApiKey # null
  currentAgentSessionId, \* Snappjack.currentAgentSessionId, "null" when there is none
  calls,                 \* the connect() invocations and sockets that can still act
  closeWait,             \* handleClose continuations awaiting validateCredentials
  errorWait,             \* handleError continuations awaiting validateCredentials
  reconnWait,            \* handleReconnectionError continuations awaiting validateCredentials
  toolRegistry,          \* ToolRegistry.tools: what it holds for each tool name
  validators,            \* ToolRegistry.validators: whether one is cached for a name
  registered,            \* the names given to the registry since it was last empty
  inputSchema,           \* the inputSchema of the tool stored as "echo", where it is spelled out
  strictSchema,          \* the schema the validator cached for "echo" was compiled from
  lastToolCallAgentSessionId, \* Snappjack.lastToolCallAgentSessionId
  toolCalls,             \* handleToolCall invocations awaiting their tool handler
  requireAuthHeader,     \* config.requireAuthHeader, "undefined" when not given
  last                   \* what the most recent turn did

vars ==
  <<autoReconnect, maxReconnectAttempts, reconnectInterval, testMode, ws, status, reconnectTimer, timers,
    reconnectAttempts, receivedUserApiKey, currentAgentSessionId, calls,
    closeWait, errorWait, reconnWait, toolRegistry, validators, registered,
    inputSchema, strictSchema, lastToolCallAgentSessionId, toolCalls, requireAuthHeader,
    last>>

config == <<autoReconnect, maxReconnectAttempts, reconnectInterval, testMode>>

\* the dispatcher's own fields
dispatcher ==
  <<toolRegistry, validators, registered, inputSchema, strictSchema,
    lastToolCallAgentSessionId, toolCalls, requireAuthHeader>>

\* ------------------------------------------------------------ SnappjackError
AuthFailed ==
  [type |-> "auth_failed", canRetry |-> FALSE, canResetCredentials |-> TRUE]

ConnectionFailed ==
  [type |-> "connection_failed", canRetry |-> TRUE, canResetCredentials |-> FALSE]

ServerUnreachable ==
  [type |-> "server_unreachable", canRetry |-> TRUE, canResetCredentials |-> FALSE]

Unknown ==
  [type |-> "unknown", canRetry |-> TRUE, canResetCredentials |-> FALSE]

\* the final error of handleReconnectionError when the attempts are used up
\* attempts is the number its message gives ("Failed to reconnect after n
\* attempts")
ReconnectFailed ==
  [type |-> "connection_failed", canRetry |-> FALSE, canResetCredentials |-> FALSE,
   attempts |-> maxReconnectAttempts]

\* ------------------------------------------------- the manager's own fields
\* The fields a handler reads and writes, with the error events it emitted
\* (errs) and whether it armed a reconnection timer (sched) during this turn.
Cur ==
  [ws |-> ws, status |-> status, reconnectTimer |-> reconnectTimer,
   timers |-> timers, reconnectAttempts |-> reconnectAttempts,
   errs |-> <<>>, sched |-> FALSE, delay |-> 0]

updateStatus(m, newStatus) ==
  [m EXCEPT !.status = newStatus]

emitError(m, error) ==
  [m EXCEPT !.errs = Append(@, error)]

clearReconnectTimer(m) ==
  IF m.reconnectTimer # 0
    THEN [m EXCEPT !.timers = @ \ {m.reconnectTimer}, !.reconnectTimer = 0]
    ELSE m

\* a handle that no pending timer and no field of the manager refers to
FreshTimer(m) ==
  CHOOSE t \in 1..(Cardinality(m.timers) + 2) : t \notin m.timers /\ t # m.reconnectTimer

\* config.reconnectInterval as Snappjack's constructor passes it when the
\* application gives none
DefaultReconnectInterval == 5000

\* the cap of the backoff and the delay of test mode, in milliseconds
MaxReconnectDelay == 30000

TestModeDelay == 1

Min(a, b) == IF a <= b THEN a ELSE b

\* a backoff that is not capped
reconnectDelayUncapped(attempts) ==
  IF testMode = "true"
    THEN TestModeDelay
    ELSE reconnectInterval * 2^attempts

\* scheduleReconnect, the delay (lines 403-408), attempts being
\* this.reconnectAttempts when the timer is armed
reconnectDelay(attempts) ==
  IF testMode = "true"
    THEN TestModeDelay
    ELSE Min(reconnectInterval * 2^attempts, MaxReconnectDelay)

\* scheduleReconnect without its clearReconnectTimer
scheduleReconnectKeepsTimer(m) ==
  LET t == FreshTimer(m)
  IN  [m EXCEPT !.reconnectTimer = t, !.timers = @ \cup {t}, !.sched = TRUE,
                !.delay = reconnectDelay(m.reconnectAttempts)]

scheduleReconnect(m) ==
  LET c == clearReconnectTimer(m)
      t == FreshTimer(c)
  IN  [c EXCEPT !.reconnectTimer = t, !.timers = @ \cup {t}, !.sched = TRUE,
                !.delay = reconnectDelay(c.reconnectAttempts)]

shouldReconnect(m, closeCode) ==
  /\ closeCode # NORMAL_CLOSURE
  /\ closeCode # POLICY_VIOLATION
  /\ m.reconnectAttempts < maxReconnectAttempts

classifyConnectionError(code, reasonAuth) ==
  CASE code = NORMAL_CLOSURE -> ConnectionFailed
    [] code \in {PROTOCOL_ERROR, POLICY_VIOLATION} -> AuthFailed
    [] code = ABNORMAL_CLOSURE -> ServerUnreachable
    [] code = SERVER_ERROR -> ConnectionFailed
    [] OTHER -> IF reasonAuth THEN AuthFailed ELSE Unknown

\* the switch on the validation result with an unreachable endpoint taken
\* for a rejected credential
ValidationErrorUnreachableIsAuth(validationResult) ==
  CASE validationResult = "valid" -> ConnectionFailed
    [] OTHER -> AuthFailed

\* the switch on the validation result in handleClose and classifyWebSocketError
ValidationError(validationResult) ==
  CASE validationResult = "invalid" -> AuthFailed
    [] validationResult = "valid" -> ConnectionFailed
    [] validationResult = "unreachable" -> ServerUnreachable

\* handleClose scheduling without looking at config.autoReconnect
handleCloseTailAlwaysReconnects(m, code, error) ==
  IF error.type = "auth_failed"
    THEN emitError(updateStatus(m, "error"), error)
    ELSE LET d == updateStatus(m, "disconnected")
         IN  IF error.canRetry /\ shouldReconnect(d, code)
               THEN scheduleReconnect(d)
               ELSE IF ~error.canRetry THEN emitError(d, error) ELSE d

\* handleClose from the classification on (lines 234-247)
handleCloseTail(m, code, error) ==
  IF error.type = "auth_failed"
    THEN emitError(updateStatus(m, "error"), error)
    ELSE LET d == updateStatus(m, "disconnected")
         IN  IF autoReconnect /\ error.canRetry /\ shouldReconnect(d, code)
               THEN scheduleReconnect(d)
               ELSE IF ~error.canRetry THEN emitError(d, error) ELSE d

\* handleError after classifyWebSocketError has answered
handleErrorTail(m, connectionError) ==
  emitError(updateStatus(m, "error"), connectionError)

\* handleReconnectionError comparing the attempts with <= instead of <
handleReconnectionErrorTailOneMore(m, shouldContinueReconnecting, error) ==
  IF shouldContinueReconnecting
    THEN IF m.reconnectAttempts <= maxReconnectAttempts
           THEN scheduleReconnect(m)
           ELSE emitError(updateStatus(clearReconnectTimer(m), "error"), ReconnectFailed)
    ELSE emitError(updateStatus(clearReconnectTimer(m), "error"), error)

\* handleReconnectionError stopping at exhaustion without the final error
handleReconnectionErrorTailSilent(m, shouldContinueReconnecting, error) ==
  IF shouldContinueReconnecting
    THEN IF m.reconnectAttempts < maxReconnectAttempts
           THEN scheduleReconnect(m)
           ELSE updateStatus(clearReconnectTimer(m), "error")
    ELSE emitError(updateStatus(clearReconnectTimer(m), "error"), error)

\* handleReconnectionError after classifyReconnectionError has answered
handleReconnectionErrorTail(m, shouldContinueReconnecting, error) ==
  IF shouldContinueReconnecting
    THEN IF m.reconnectAttempts < maxReconnectAttempts
           THEN scheduleReconnect(m)
           ELSE emitError(updateStatus(clearReconnectTimer(m), "error"), ReconnectFailed)
    ELSE emitError(updateStatus(clearReconnectTimer(m), "error"), error)

\* --------------------------------------------------------------- bookkeeping
\* stands for a message or an invocation where a turn has none
Unset == [type |-> "unset"]

NoLast ==
  [op |-> "init", code |-> 0, validation |-> "none", origin |-> "none",
   settle |-> "none", message |-> "none", errs |-> <<>>, sched |-> FALSE,
   sent |-> <<>>, events |-> <<>>, inbound |-> Unset, invoked |-> FALSE,
   answers |-> Unset, result |-> "none", socket |-> 0,
   isValid |-> TRUE, errors |-> {}, args |-> Unset, delay |-> 0]

\* A call whose socket is closed (or was never created because the token
\* provider rejected) has no callback left to run and nothing of it can be
\* observed but the readyState CLOSED: what is left of it is Closed.
Inert(c) == ~c.timeout /\ (c.rs = "CLOSED" \/ (c.rs = "NONE" /\ c.promise = "settled"))

Closed ==
  [rs |-> "CLOSED", promise |-> "settled", timeout |-> FALSE, onclose |-> "handleClose"]

Sweep(cs) == [j \in DOMAIN cs |-> IF Inert(cs[j]) THEN Closed ELSE cs[j]]

Commit(m) ==
  /\ ws' = m.ws
  /\ status' = m.status
  /\ reconnectTimer' = m.reconnectTimer
  /\ timers' = m.timers
  /\ reconnectAttempts' = m.reconnectAttempts

\* the manager's fields and the calls after a turn
Step(m, cs) ==
  /\ Commit(m)
  /\ calls' = Sweep(cs)

Record(m, r) ==
  last' = [r EXCEPT !.errs = m.errs, !.sched = m.sched, !.delay = m.delay]

\* A connect() call that went past the early return, with the socket it
\* creates: rs is the socket's readyState ("NONE" until createWebSocket),
\* promise tells who awaits the call ("settled" once resolved or rejected),
\* timeout whether its connectTimeout is armed, onclose which function the
\* socket's onclose property holds.
NewCall(origin) ==
  [rs |-> "NONE", promise |-> origin, timeout |-> FALSE, onclose |-> "handleClose"]

IsOpen(m) == m.ws # 0 /\ calls[m.ws].rs = "OPEN"

\* send that looks only at this.ws, not at its readyState
sendIgnoresReadyState(m, cs) ==
  IF m.ws # 0 THEN "written" ELSE "thrown"

\* send (lines 142-150), cs holding the readyState of the sockets: "written"
\* when the message went to this.ws.send, "thrown" when the call threw
\* 'WebSocket is not connected'
send(m, cs) ==
  IF m.ws # 0 /\ cs[m.ws].rs = "OPEN" THEN "written" ELSE "thrown"

CallIds == 1..MaxCalls

\* ------------------------------------------------------------- ToolRegistry
\* What the registry holds for a name: "none" (never registered),
\* "definition" (a tool without handler) or "handler" (a tool with one).
ToolNames == {"echo", "ghost"}

ToolEntry == {"none", "definition", "handler"}

\* register(tool): the entry of tool.name is replaced by the tool as given
register(registry, name, withHandler) ==
  [registry EXCEPT ![name] = IF withHandler THEN "handler" ELSE "definition"]

\* setHandler(name, handler): attaches the handler, creating a basic tool
\* definition when the name is not registered
setHandler(registry, name) ==
  [registry EXCEPT ![name] = "handler"]

has(registry, name) == registry[name] # "none"

getHandler(registry, name) == registry[name] = "handler"

\* getDefinition(name): the definition of the tool, the handler property
\* omitted, or nothing
getDefinition(registry, name) ==
  IF registry[name] = "none" THEN {} ELSE {[name |-> name]}

size(registry) == Cardinality({name \in ToolNames : registry[name] # "none"})

\* a clear() that forgets the validators only
clearKeepsTools(registry) ==
  registry

\* clear(): this.tools.clear()
clear(registry) ==
  [name \in ToolNames |-> "none"]

\* clear(): this.validators.clear()
clearValidators(cached) ==
  [name \in ToolNames |-> FALSE]

\* getAll(): the definitions of the registered tools, the handler property
\* omitted
getAll(registry) ==
  {[name |-> name] : name \in {n \in ToolNames : registry[n] # "none"}}

\* Snappjack.registerTool (lines 239-246): register, then onToolCall when
\* the tool brings a handler
registerTool(registry, name, withHandler) ==
  IF withHandler
    THEN setHandler(register(registry, name, withHandler), name)
    ELSE register(registry, name, withHandler)

\* What a validator can report about the arguments of a call: each element
\* is one error, the instance path and the message.
Violations == {<<"", "required">>, <<"/text", "type">>}

\* validate(name, args): the arguments are given by the errors the cached
\* validator finds in them; a name without cached validator is valid by
\* default, and an empty instancePath is reported as 'root'
validate(cached, name, arguments) ==
  IF ~cached[name]
    THEN [isValid |-> TRUE, errors |-> {}]
    ELSE [isValid |-> arguments = {},
          errors |-> {<<IF err[1] = "" THEN "root" ELSE err[1], err[2]>> : err \in arguments}]

\* register(tool), the try block: the validator compiled from the tool's
\* schema is cached under its name; when compiling throws, the catch warns
\* and the cache is left as it was
cacheValidator(cached, name, compiles) ==
  IF compiles THEN [cached EXCEPT ![name] = TRUE] ELSE cached

\* ---------------------------------------------------- dispatcher: outbound
\* One call of connectionManager.send by the dispatcher: the message, the
\* socket this.ws held at the time (0 is null) and what send did with it.
Outbound(m, cs, message) ==
  [message |-> message, to |-> m.ws, outcome |-> send(m, cs)]

\* What a dispatcher method did: the sends it tried and the events it
\* emitted on the dispatcher, in order.
Quiet == [sent |-> <<>>, events |-> <<>>]

Then(a, b) == [sent |-> a.sent \o b.sent, events |-> a.events \o b.events]

Emit(type, data) == [sent |-> <<>>, events |-> <<[type |-> type, data |-> data]>>]

\* a catch that swallows the failure
SendOrEmitErrorSilent(m, cs, message) ==
  [sent |-> <<Outbound(m, cs, message)>>, events |-> <<>>]

\* try { connectionManager.send(message) } catch (error) { emit('error', error) }
SendOrEmitError(m, cs, message) ==
  [sent |-> <<Outbound(m, cs, message)>>,
   events |-> IF send(m, cs) = "thrown"
                THEN <<[type |-> "error", data |-> "WebSocket is not connected"]>>
                ELSE <<>>]

\* try { connectionManager.send(message) } catch (error) { logger.error(...) }
SendOrLog(m, cs, message) ==
  [sent |-> <<Outbound(m, cs, message)>>, events |-> <<>>]

\* sendToolsRegistration (lines 287-304)
sendToolsRegistration(m, cs) ==
  SendOrEmitError(m, cs, [kind |-> "tools-registration", tools |-> getAll(toolRegistry)])

\* sendInitialAuthRequirementIfNeeded (lines 310-331): serverCurrentValue is
\* "true" or "false"; the constructor keeps config.requireAuthHeader ?? true
\* as currentRequireAuthHeader
currentRequireAuthHeader ==
  IF requireAuthHeader = "undefined" THEN "true" ELSE requireAuthHeader

sendInitialAuthRequirementIfNeeded(m, cs, serverCurrentValue) ==
  IF requireAuthHeader # "undefined" /\ currentRequireAuthHeader # serverCurrentValue
    THEN SendOrLog(m, cs, [kind |-> "update-auth-requirement",
                       requireAuthHeader |-> currentRequireAuthHeader])
    ELSE Quiet

\* sendToolResponse (lines 532-545): the reply is tagged with the session
\* the slot holds when it is built
sendToolResponse(m, cs, slot, requestId, result) ==
  SendOrEmitError(m, cs, [id |-> requestId, kind |-> "result", result |-> result,
                      agentSessionId |-> slot])

\* sendToolError (lines 550-566)
sendToolError(m, cs, slot, requestId, error) ==
  SendOrEmitError(m, cs, [id |-> requestId, kind |-> "error", result |-> error,
                      agentSessionId |-> slot])

FreshCall == CHOOSE n \in CallIds \ DOMAIN calls : \A k \in CallIds \ DOMAIN calls : n <= k

With(cs, i, c) == [j \in DOMAIN cs \cup {i} |-> IF j = i THEN c ELSE cs[j]]

\* new ConnectionManager(config, logger): every field but the config
Constructed ==
  /\ ws = 0
  /\ status = "disconnected"
  /\ reconnectTimer = 0
  /\ timers = {}
  /\ reconnectAttempts = 0
  /\ receivedUserApiKey = FALSE
  /\ currentAgentSessionId = "null"
  /\ calls = [j \in {} |-> NewCall("app")]
  /\ closeWait = 0
  /\ errorWait = 0
  /\ reconnWait = 0
  /\ lastToolCallAgentSessionId = "undefined"
  /\ toolCalls = {}
  /\ registered = {}
  /\ inputSchema = Unset
  /\ strictSchema = Unset
  /\ last = NoLast

\* A Snappjack constructed without tools and without requireAuthHeader
Init ==
  /\ autoReconnect \in BOOLEAN
  /\ maxReconnectAttempts \in 0..MaxMaxReconnectAttempts
  /\ reconnectInterval = DefaultReconnectInterval
  /\ testMode = "undefined"
  /\ toolRegistry = [name \in ToolNames |-> "none"]
  /\ validators = [name \in ToolNames |-> FALSE]
  /\ requireAuthHeader = "undefined"
  /\ Constructed

\* a connect() that asks for a token whatever the socket's state
connectWithoutEarlyReturn(m, origin) ==
  /\ DOMAIN calls # CallIds
  /\ Step(m, With(calls, FreshCall, NewCall(origin)))
  /\ last' = [NoLast EXCEPT !.op = "connect", !.origin = origin]

\* connect() from its first line to the await of the token provider
\* (lines 37-48), called by origin: the application or the timer callback.
connect(m, origin) ==
  IF IsOpen(m)
    THEN /\ Step(m, calls)
         /\ last' = [NoLast EXCEPT !.op = "connect", !.origin = origin, !.settle = "resolved"]
    ELSE /\ DOMAIN calls # CallIds
         /\ Step(m, With(calls, FreshCall, NewCall(origin)))
         /\ last' = [NoLast EXCEPT !.op = "connect", !.origin = origin]

\* The application calls connect().  It does not start a call while another
\* call of its own still awaits the token provider; it may well call again
\* while a socket is connecting, is open, or a retry is under way.
AppConnect ==
  /\ \A j \in DOMAIN calls : ~(calls[j].promise = "app" /\ calls[j].rs = "NONE")
  /\ connect(Cur, "app")
  /\ UNCHANGED <<config, dispatcher, receivedUserApiKey, currentAgentSessionId,
                 closeWait, errorWait, reconnWait>>

\* classifyReconnectionError taking an auth text for a temporary failure
classifyReconnectionErrorAuthContinues(errorMessage) ==
  CASE NetworkSignature(errorMessage) -> "continue"
    [] AuthSignature(errorMessage) -> "continue"
    [] OTHER -> IF receivedUserApiKey THEN "validate" ELSE "continue"

\* what classifyReconnectionError answers before any await (lines 467-529):
\* "continue", "stop", or "validate" when it has to await validateCredentials
classifyReconnectionError(errorMessage) ==
  CASE NetworkSignature(errorMessage) -> "continue"
    [] AuthSignature(errorMessage) -> "stop"
    [] OTHER -> IF receivedUserApiKey THEN "validate" ELSE "continue"

\* handleReconnectionError up to the first await that leaves the turn
handleReconnectionError(m, errorMessage) ==
  CASE classifyReconnectionError(errorMessage) = "continue" ->
         handleReconnectionErrorTail(m, TRUE, AuthFailed)
    [] classifyReconnectionError(errorMessage) = "stop" ->
         handleReconnectionErrorTail(m, FALSE, AuthFailed)
    [] OTHER -> m

\* The promise of connect() call i is rejected: nothing happens unless it is
\* still pending; the timer callback of scheduleReconnect (lines 412-421)
\* catches the rejection of the call it made.
Pending(i) == calls[i].promise # "settled"

CaughtByTimer(i) == calls[i].promise = "timer"

AfterReject(m, i, errorMessage) ==
  IF CaughtByTimer(i) THEN handleReconnectionError(m, errorMessage) ELSE m

ReconnAwaits(i, errorMessage) ==
  IF CaughtByTimer(i) /\ classifyReconnectionError(errorMessage) = "validate" THEN 1 ELSE 0

Settles(i, how) == IF Pending(i) THEN how ELSE "none"

\* The token provider resolves: connect() creates the socket (lines 51-63).
TokenResolve(i) ==
  /\ calls[i].rs = "NONE"
  /\ Pending(i)
  /\ Step([Cur EXCEPT !.ws = i],
          [calls EXCEPT ![i] = [@ EXCEPT !.rs = "CONNECTING", !.timeout = TRUE]])
  /\ last' = [NoLast EXCEPT !.op = "socket", !.origin = calls[i].promise]
  /\ UNCHANGED <<config, dispatcher, receivedUserApiKey, currentAgentSessionId,
                 closeWait, errorWait, reconnWait>>

\* the catch block of connect() scheduling whatever config.autoReconnect says
connectCatchIgnoresAutoReconnect(m) ==
  IF m.reconnectAttempts = 0 THEN scheduleReconnect(m) ELSE m

\* the catch block of connect() before it rethrows (lines 107-115)
connectCatch(m) ==
  IF autoReconnect /\ m.reconnectAttempts = 0 THEN scheduleReconnect(m) ELSE m

\* The token provider rejects: the catch block of connect() (lines 107-118),
\* then the catch of the timer callback if the call was a scheduled retry.
TokenReject(i, errorMessage) ==
  /\ calls[i].rs = "NONE"
  /\ Pending(i)
  /\ reconnWait + ReconnAwaits(i, errorMessage) <= MaxAwaiting
  /\ LET c == connectCatch(Cur)
         m == AfterReject(c, i, errorMessage)
     IN  /\ Step(m, [calls EXCEPT ![i] = [@ EXCEPT !.promise = "settled"]])
         /\ Record(m, [NoLast EXCEPT !.op = "tokenReject", !.origin = calls[i].promise,
                         !.settle = "rejected", !.message = errorMessage,
                         !.validation = IF ReconnAwaits(i, errorMessage) = 1
                                          THEN "pending" ELSE "none"])
  /\ reconnWait' = reconnWait + ReconnAwaits(i, errorMessage)
  /\ UNCHANGED <<config, dispatcher, receivedUserApiKey, currentAgentSessionId, closeWait, errorWait>>

\* onopen without the reset of reconnectAttempts
onopenKeepsAttempts(m) ==
  updateStatus(m, "connected")

\* onopen of the socket of call i (lines 65-72).
onopen(m) ==
  updateStatus([m EXCEPT !.reconnectAttempts = 0], "connected")

SocketOpen(i) ==
  /\ calls[i].rs = "CONNECTING"
  /\ Step(onopen(Cur), [calls EXCEPT ![i] = [@ EXCEPT !.rs = "OPEN", !.timeout = FALSE,
                                                       !.promise = "settled"]])
  /\ LET opened == [calls EXCEPT ![i] = [@ EXCEPT !.rs = "OPEN"]]
         d == sendToolsRegistration(onopen(Cur), opened)
     IN  last' = [NoLast EXCEPT !.op = "open", !.origin = calls[i].promise, !.socket = i,
                                !.settle = Settles(i, "resolved"),
                                !.sent = d.sent, !.events = d.events]
  /\ UNCHANGED <<config, dispatcher, receivedUserApiKey, currentAgentSessionId,
                 closeWait, errorWait, reconnWait>>

\* handleClose up to the await of validateCredentials, or to its end when
\* it does not validate (lines 195-232).
handleClose(m, code, reasonAuth) ==
  IF code = ABNORMAL_CLOSURE /\ receivedUserApiKey
    THEN [m EXCEPT !.ws = 0]
    ELSE handleCloseTail([m EXCEPT !.ws = 0], code, classifyConnectionError(code, reasonAuth))

CloseAwaits(code) ==
  IF code = ABNORMAL_CLOSURE /\ receivedUserApiKey THEN 1 ELSE 0

\* onclose of the socket of call i (lines 90-94), or the handler that
\* disconnect() put in its place (line 130).
SocketClose(i, code, reasonAuth) ==
  /\ calls[i].rs \in {"CONNECTING", "OPEN", "CLOSING"}
  /\ IF calls[i].onclose = "resolve"
       THEN /\ Step(Cur, [calls EXCEPT ![i] = [@ EXCEPT !.rs = "CLOSED"]])
            /\ last' = [NoLast EXCEPT !.op = "close", !.code = code, !.origin = "disconnect",
                                      !.settle = "resolved"]
            /\ closeWait' = closeWait
       ELSE /\ closeWait + CloseAwaits(code) <= MaxAwaiting
            /\ LET m == handleClose(Cur, code, reasonAuth)
               IN  /\ Step(m, [calls EXCEPT ![i] = [@ EXCEPT !.rs = "CLOSED",
                                                              !.timeout = FALSE]])
                   /\ Record(m, [NoLast EXCEPT !.op = "close", !.code = code,
                                   !.origin = calls[i].promise,
                                   !.validation = IF CloseAwaits(code) = 1
                                                    THEN "pending" ELSE "none"])
            /\ closeWait' = closeWait + CloseAwaits(code)
  /\ UNCHANGED <<config, dispatcher, receivedUserApiKey, currentAgentSessionId, errorWait, reconnWait>>

\* handleClose resumes with the answer of validateCredentials (lines 204-247).
CloseValidated(validationResult) ==
  /\ closeWait > 0
  /\ closeWait' = closeWait - 1
  /\ LET m == handleCloseTail(Cur, ABNORMAL_CLOSURE, ValidationError(validationResult))
     IN  /\ Commit(m)
         /\ Record(m, [NoLast EXCEPT !.op = "close", !.code = ABNORMAL_CLOSURE,
                                     !.validation = validationResult])
  /\ UNCHANGED <<config, dispatcher, receivedUserApiKey, currentAgentSessionId, calls,
                 errorWait, reconnWait>>

\* handleError up to the await of validateCredentials, or to its end when
\* classifyWebSocketError does not validate (lines 253-297).
handleError(m) ==
  IF receivedUserApiKey THEN m ELSE handleErrorTail(m, ConnectionFailed)

ErrorAwaits == IF receivedUserApiKey THEN 1 ELSE 0

\* onerror of the socket of call i (lines 96-105).  A socket reports an
\* error once, while it is connecting or open; after that it is no longer
\* connecting or open and its close event is still to come.
SocketError(i) ==
  /\ calls[i].rs \in {"CONNECTING", "OPEN"}
  /\ errorWait + ErrorAwaits <= MaxAwaiting
  /\ reconnWait + ReconnAwaits(i, "other") <= MaxAwaiting
  /\ LET m == AfterReject(handleError(Cur), i, "other")
     IN  /\ Step(m, [calls EXCEPT ![i] = [@ EXCEPT !.rs = "CLOSING", !.timeout = FALSE,
                                                    !.promise = "settled"]])
         /\ Record(m, [NoLast EXCEPT !.op = "error", !.origin = calls[i].promise,
                         !.validation = IF ErrorAwaits = 1 THEN "pending" ELSE "none",
                         !.settle = Settles(i, "rejected")])
  /\ errorWait' = errorWait + ErrorAwaits
  /\ reconnWait' = reconnWait + ReconnAwaits(i, "other")
  /\ UNCHANGED <<config, dispatcher, receivedUserApiKey, currentAgentSessionId, closeWait>>

\* handleError resumes with the answer of validateCredentials (lines 254-256).
ErrorValidated(validationResult) ==
  /\ errorWait > 0
  /\ errorWait' = errorWait - 1
  /\ LET m == handleErrorTail(Cur, ValidationError(validationResult))
     IN  /\ Commit(m)
         /\ Record(m, [NoLast EXCEPT !.op = "errorValidated", !.validation = validationResult])
  /\ UNCHANGED <<config, dispatcher, receivedUserApiKey, currentAgentSessionId, calls,
                 closeWait, reconnWait>>

\* handleReconnectionError resumes with the answer of validateCredentials
\* (lines 500-528, then 434-456).
ReconnValidated(validationResult) ==
  /\ reconnWait > 0
  /\ reconnWait' = reconnWait - 1
  /\ LET m == handleReconnectionErrorTail(Cur, validationResult # "invalid", AuthFailed)
     IN  /\ Commit(m)
         /\ Record(m, [NoLast EXCEPT !.op = "reconnValidated", !.origin = "timer",
                                     !.validation = validationResult])
  /\ UNCHANGED <<config, dispatcher, receivedUserApiKey, currentAgentSessionId, calls,
                 closeWait, errorWait>>

\* ws.close() as the socket carries it out
close(c) ==
  IF c.rs \in {"CONNECTING", "OPEN"} THEN [c EXCEPT !.rs = "CLOSING"] ELSE c

\* The connection timeout armed for call i fires (lines 58-63): it closes
\* whatever socket this.ws holds at that moment and rejects call i.
ConnectTimeout(i) ==
  /\ calls[i].timeout
  /\ LET m == AfterReject(Cur, i, "network")
     IN  /\ Step(m, [j \in DOMAIN calls |->
                       LET c == IF j = ws THEN close(calls[j]) ELSE calls[j]
                       IN  IF j = i THEN [c EXCEPT !.timeout = FALSE, !.promise = "settled"]
                                    ELSE c])
         /\ Record(m, [NoLast EXCEPT !.op = "timeout", !.origin = calls[i].promise,
                                     !.settle = Settles(i, "rejected")])
  /\ UNCHANGED <<config, dispatcher, receivedUserApiKey, currentAgentSessionId,
                 closeWait, errorWait, reconnWait>>

\* A reconnection timer fires (lines 412-416): it counts the attempt and
\* calls connect().
ReconnectTimerFires(t) ==
  /\ t \in timers
  /\ LET m == [Cur EXCEPT !.timers = @ \ {t}, !.reconnectAttempts = @ + 1]
     IN  connect(m, "timer")
  /\ UNCHANGED <<config, dispatcher, receivedUserApiKey, currentAgentSessionId,
                 closeWait, errorWait, reconnWait>>

\* The application calls disconnect() (lines 124-137).
AppDisconnect ==
  /\ Step(clearReconnectTimer(Cur),
          IF IsOpen(Cur)
            THEN [calls EXCEPT ![ws] = [close(@) EXCEPT !.onclose = "resolve"]]
            ELSE calls)
  /\ last' = [NoLast EXCEPT !.op = "disconnect", !.origin = "app",
                            !.settle = IF IsOpen(Cur) THEN "none" ELSE "resolved"]
  /\ UNCHANGED <<config, dispatcher, receivedUserApiKey, currentAgentSessionId,
                 closeWait, errorWait, reconnWait>>

\* The application calls send(message): the call returns or throws within
\* the turn and touches no field of the manager.
AppSend ==
  /\ last' = [NoLast EXCEPT !.op = "send", !.origin = "app", !.settle = send(Cur, calls)]
  /\ UNCHANGED <<config, dispatcher, ws, status, reconnectTimer, timers, reconnectAttempts,
                 receivedUserApiKey, currentAgentSessionId, calls,
                 closeWait, errorWait, reconnWait>>

\* ------------------------------------------------- dispatcher: inbound
AgentSessions == {"agent-session", "other-session"}

\* A parsed message: type is "absent" when the message has no 'type'
\* property, jsonrpc, method, name (params.name) and agentSessionId are
\* "absent" when missing; arguments (params.arguments) are given by the
\* errors a validator finds in them.
Plain ==
  [type |-> "absent", jsonrpc |-> "absent", method |-> "absent", id |-> "absent",
   name |-> "absent", arguments |-> {}, agentSessionId |-> "absent",
   userApiKey |-> FALSE, requireAuthHeader |-> "undefined"]

ToolCallMessage(type, id, name, arguments, agentSessionId) ==
  [Plain EXCEPT !.type = type, !.jsonrpc = "2.0", !.method = "tools/call", !.id = id,
                !.name = name, !.arguments = arguments, !.agentSessionId = agentSessionId]

AgentMessage(type, agentSessionId) ==
  [Plain EXCEPT !.type = type, !.agentSessionId = agentSessionId]

ConnectionInfoMessage(userApiKey, serverValue) ==
  [Plain EXCEPT !.type = "connection-info", !.userApiKey = userApiKey,
                !.requireAuthHeader = serverValue]

\* the request id each agent session uses for its call
RequestOf(agentSessionId) ==
  IF agentSessionId = "agent-session" THEN "req-1" ELSE "req-2"

\* the messages that arrive: tool calls of both sessions, for either tool,
\* with valid and with invalid arguments; a tool call that also has a
\* 'type' property; a message one property short of a tool call; agent
\* messages; connection-info with and without userApiKey; a message of an
\* unknown type and one without type
Messages ==
  {ToolCallMessage("absent", RequestOf(x[3]), x[1], x[2], x[3]) :
     x \in ToolNames \X {{}, Violations} \X AgentSessions}
  \cup {ToolCallMessage("custom", "req-1", "echo", {}, "agent-session")}
  \cup {[ToolCallMessage("absent", "req-1", "echo", {}, "agent-session")
           EXCEPT !.method = "absent"]}
  \cup {AgentMessage(x[1], x[2]) :
          x \in {"agent-connected", "agent-disconnected"} \X AgentSessions}
  \cup {ConnectionInfoMessage(TRUE, serverValue) : serverValue \in {"undefined", "false"}}
  \cup {ConnectionInfoMessage(FALSE, "undefined")}
  \cup {Plain, [Plain EXCEPT !.type = "custom"]}

\* isToolCallRequest (lines 513-527)
isToolCallRequest(message) ==
  /\ message.jsonrpc = "2.0"
  /\ message.method = "tools/call"
  /\ message.name # "absent"
  /\ message.agentSessionId # "absent"

\* What handling a message leaves behind: the manager's fields, the two
\* session fields, the handler invocations awaiting their result, what was
\* sent and emitted, and whether a tool handler was called.
Handled(m) ==
  [m |-> m, currentAgentSessionId |-> currentAgentSessionId,
   slot |-> lastToolCallAgentSessionId, toolCalls |-> toolCalls,
   out |-> Quiet, invoked |-> FALSE]

\* handleConnectionInfo (lines 368-400)
handleConnectionInfo(m, cs, message) ==
  IF message.userApiKey
    THEN LET serverAuthRequirement ==
               IF message.requireAuthHeader = "undefined" THEN "true"
               ELSE message.requireAuthHeader
         IN  [Handled(m) EXCEPT !.out =
                Then(sendInitialAuthRequirementIfNeeded(m, cs, serverAuthRequirement),
                     Then(Emit("connection-info-updated", serverAuthRequirement),
                          Emit("user-api-key-generated", serverAuthRequirement)))]
    ELSE Handled(m)

\* handleAgentConnected (lines 405-412)
handleAgentConnected(m, message) ==
  [Handled(updateStatus(m, "bridged")) EXCEPT
     !.currentAgentSessionId = message.agentSessionId,
     !.out = Emit("agent-connected", message.agentSessionId)]

\* handleAgentDisconnected that does not compare the session ids
handleAgentDisconnectedAlwaysClears(m, message) ==
  [Handled(updateStatus(m, "connected")) EXCEPT
     !.currentAgentSessionId = "null",
     !.out = Emit("agent-disconnected", message.agentSessionId)]

\* handleAgentDisconnected (lines 417-429)
handleAgentDisconnected(m, message) ==
  IF currentAgentSessionId = message.agentSessionId
    THEN [Handled(updateStatus(m, "connected")) EXCEPT
            !.currentAgentSessionId = "null",
            !.out = Emit("agent-disconnected", message.agentSessionId)]
    ELSE [Handled(m) EXCEPT !.out = Emit("agent-disconnected", message.agentSessionId)]

MethodNotFound == -32601

\* the ToolResponse objects handleToolCall builds itself
ErrorResult(text, details) ==
  [isError |-> TRUE, text |-> text, details |-> details]

\* `${err.instancePath || 'root'}: ${err.message}`
ErrorDetail(err) == <<IF err[1] = "" THEN "root" ELSE err[1], err[2]>>

\* what a tool handler can do: return a result with a content list, return
\* null, a non-object, an object without a content list, or throw (reject)
HandlerResult == {"content", "null", "nonObject", "noContent", "throws"}

\* the pending invocation a tool call leaves while its handler runs
Invocation(message) ==
  [id |-> message.id, name |-> message.name, agentSessionId |-> message.agentSessionId]

\* a lookup that asks only whether the tool is registered
toolNotFoundHasOnly(registry, name) ==
  ~has(registry, name)

\* the test of lines 439-441: no handler, or no such tool
toolNotFound(registry, name) ==
  ~getHandler(registry, name) \/ ~has(registry, name)

\* arguments taken as they come
validateArgumentsSkipped(cached, message) ==
  [isValid |-> TRUE, errors |-> {}]

\* the validation of lines 453-456
validateArguments(cached, message) ==
  validate(cached, message.name, message.arguments)

\* handleToolCall answering invalid arguments with a protocol error and a
\* result
handleToolCallAnswersTwice(m, cs, message) ==
  LET slot == message.agentSessionId
      validationResult == validateArguments(validators, message)
  IN  IF toolNotFound(toolRegistry, message.name)
        THEN [Handled(m) EXCEPT
                !.slot = slot,
                !.out = sendToolError(m, cs, slot, message.id,
                                      [code |-> MethodNotFound,
                                       message |-> "Method not found"])]
      ELSE IF ~validationResult.isValid
        THEN [Handled(m) EXCEPT
                !.slot = slot,
                !.out = Then(sendToolError(m, cs, slot, message.id,
                                           [code |-> MethodNotFound,
                                            message |-> "Invalid arguments"]),
                             sendToolResponse(m, cs, slot, message.id,
                               ErrorResult("Invalid arguments",
                                 {ErrorDetail(err) : err \in validationResult.errors})))]
      ELSE [Handled(m) EXCEPT
              !.slot = slot,
              !.toolCalls = toolCalls \cup {Invocation(message)},
              !.invoked = TRUE]

\* handleToolCall from its first line to the await of the handler
\* (lines 434-477)
handleToolCall(m, cs, message) ==
  LET slot == message.agentSessionId
      validationResult == validateArguments(validators, message)
  IN  IF toolNotFound(toolRegistry, message.name)
        THEN [Handled(m) EXCEPT
                !.slot = slot,
                !.out = sendToolError(m, cs, slot, message.id,
                                      [code |-> MethodNotFound,
                                       message |-> "Method not found"])]
      ELSE IF ~validationResult.isValid
        THEN [Handled(m) EXCEPT
                !.slot = slot,
                !.out = sendToolResponse(m, cs, slot, message.id,
                          ErrorResult("Invalid arguments",
                                      {ErrorDetail(err) : err \in validationResult.errors}))]
      ELSE [Handled(m) EXCEPT
              !.slot = slot,
              !.toolCalls = toolCalls \cup {Invocation(message)},
              !.invoked = TRUE]

\* handleToolCall answering a handler that threw with a protocol error
handleToolCallResumeProtocolError(m, cs, slot, call, result) ==
  CASE result = "throws" ->
         sendToolError(m, cs, slot, call.id,
                       [code |-> MethodNotFound, message |-> "Tool execution failed"])
    [] result \in {"null", "nonObject", "noContent"} ->
         sendToolResponse(m, cs, slot, call.id, ErrorResult("invalid result format", {}))
    [] OTHER ->
         sendToolResponse(m, cs, slot, call.id,
                          [isError |-> FALSE, text |-> "content", details |-> {}])

\* handleToolCall after the await of the handler (lines 477-507)
handleToolCallResume(m, cs, slot, call, result) ==
  CASE result = "throws" ->
         sendToolResponse(m, cs, slot, call.id, ErrorResult("Tool execution failed", {}))
    [] result \in {"null", "nonObject", "noContent"} ->
         sendToolResponse(m, cs, slot, call.id, ErrorResult("invalid result format", {}))
    [] OTHER ->
         sendToolResponse(m, cs, slot, call.id,
                          [isError |-> FALSE, text |-> "content", details |-> {}])

\* handleMessage testing the shape of a tool call before the type
handleMessageShapeFirst(m, cs, message) ==
  IF isToolCallRequest(message)
    THEN handleToolCall(m, cs, message)
    ELSE CASE message.type = "connection-info" -> handleConnectionInfo(m, cs, message)
           [] message.type = "agent-connected" -> handleAgentConnected(m, message)
           [] message.type = "agent-disconnected" -> handleAgentDisconnected(m, message)
           [] OTHER -> [Handled(m) EXCEPT !.out = Emit("message", message)]

\* handleMessage (lines 336-363)
handleMessage(m, cs, message) ==
  IF message.type # "absent"
    THEN CASE message.type = "connection-info" -> handleConnectionInfo(m, cs, message)
           [] message.type = "agent-connected" -> handleAgentConnected(m, message)
           [] message.type = "agent-disconnected" -> handleAgentDisconnected(m, message)
           [] OTHER -> [Handled(m) EXCEPT !.out = Emit("message", message)]
    ELSE IF isToolCallRequest(message)
           THEN handleToolCall(m, cs, message)
           ELSE [Handled(m) EXCEPT !.out = Emit("message", message)]

\* onmessage of the socket of call i (lines 74-88) and the dispatcher's
\* 'message' listener with it.
Receive(i, message) ==
  /\ calls[i].rs = "OPEN"
  /\ receivedUserApiKey' =
       (receivedUserApiKey \/ (message.type = "connection-info" /\ message.userApiKey))
  /\ LET h == handleMessage(Cur, calls, message)
     IN  /\ Cardinality(h.toolCalls) <= MaxPending
         /\ h.invoked => Invocation(message) \notin toolCalls
         /\ Commit(h.m)
         /\ currentAgentSessionId' = h.currentAgentSessionId
         /\ lastToolCallAgentSessionId' = h.slot
         /\ toolCalls' = h.toolCalls
         /\ last' = [NoLast EXCEPT !.op = "message", !.inbound = message, !.socket = i,
                                   !.invoked = h.invoked,
                                   !.sent = h.out.sent, !.events = h.out.events]
  /\ UNCHANGED <<config, calls, closeWait, errorWait, reconnWait,
                 toolRegistry, validators, registered, inputSchema, strictSchema,
                 requireAuthHeader>>

\* a catch that reports the frame as a connection error
onmessageCatchReports(m) ==
  [Handled(emitError(updateStatus(m, "error"), Unset)) EXCEPT !.out = Emit("error", Unset)]

\* onmessage, the catch (lines 85-87): JSON.parse threw before anything was
\* assigned or emitted; the failure is logged with logger.warn and dropped
onmessageCatch(m) ==
  Handled(m)

\* onmessage of the socket of call i (lines 74-88) for a frame whose text
\* JSON.parse rejects.
ReceiveUnparsable(i) ==
  /\ calls[i].rs = "OPEN"
  /\ LET h == onmessageCatch(Cur)
     IN  /\ Commit(h.m)
         /\ currentAgentSessionId' = h.currentAgentSessionId
         /\ lastToolCallAgentSessionId' = h.slot
         /\ toolCalls' = h.toolCalls
         /\ last' = [NoLast EXCEPT !.op = "frame", !.socket = i, !.errs = h.m.errs,
                                   !.sent = h.out.sent, !.events = h.out.events]
  /\ UNCHANGED <<config, receivedUserApiKey, calls, closeWait, errorWait, reconnWait,
                 toolRegistry, validators, registered, inputSchema, strictSchema,
                 requireAuthHeader>>

\* A connection-info message that carries a userApiKey.
ConnectionInfo(i) == Receive(i, ConnectionInfoMessage(TRUE, "undefined"))

\* An agent-connected message reaches Snappjack.handleAgentConnected.
AgentConnected(i, agentSessionId) ==
  Receive(i, AgentMessage("agent-connected", agentSessionId))

\* An agent-disconnected message reaches Snappjack.handleAgentDisconnected.
AgentDisconnected(i, agentSessionId) ==
  Receive(i, AgentMessage("agent-disconnected", agentSessionId))

\* The handler of a pending tool call returns or throws and handleToolCall
\* runs to its end.
HandlerSettles(call, result) ==
  /\ call \in toolCalls
  /\ toolCalls' = toolCalls \ {call}
  /\ LET d == handleToolCallResume(Cur, calls, lastToolCallAgentSessionId, call, result)
     IN  last' = [NoLast EXCEPT !.op = "handler", !.answers = call, !.result = result,
                                !.sent = d.sent, !.events = d.events]
  /\ UNCHANGED <<config, ws, status, reconnectTimer, timers, reconnectAttempts,
                 receivedUserApiKey, currentAgentSessionId, calls,
                 closeWait, errorWait, reconnWait,
                 toolRegistry, validators, registered, inputSchema, strictSchema,
                 lastToolCallAgentSessionId, requireAuthHeader>>

\* The application calls registerTool(tool) (lines 239-246) with a tool
\* whose inputSchema compiles.
RegisterTool(name, withHandler) ==
  /\ toolRegistry' = registerTool(toolRegistry, name, withHandler)
  /\ validators' = cacheValidator(validators, name, TRUE)
  /\ registered' = registered \cup {name}
  /\ last' = [NoLast EXCEPT !.op = "registerTool", !.message = name]
  /\ UNCHANGED <<config, ws, status, reconnectTimer, timers, reconnectAttempts,
                 receivedUserApiKey, currentAgentSessionId, calls,
                 closeWait, errorWait, reconnWait,
                 inputSchema, strictSchema, lastToolCallAgentSessionId, toolCalls,
                 requireAuthHeader>>

Next ==
  \/ AppConnect
  \/ AppDisconnect
  \/ AppSend
  \/ \E i \in DOMAIN calls : TokenResolve(i)
  \/ \E i \in DOMAIN calls, errorMessage \in ErrorText : TokenReject(i, errorMessage)
  \/ \E i \in DOMAIN calls : SocketOpen(i)
  \/ \E i \in DOMAIN calls, event \in CloseEvents : SocketClose(i, event[1], event[2])
  \/ \E i \in DOMAIN calls : SocketError(i)
  \/ \E i \in DOMAIN calls : ConnectTimeout(i)
  \/ \E t \in timers : ReconnectTimerFires(t)
  \/ \E validationResult \in CredentialValidationResult : CloseValidated(validationResult)
  \/ \E validationResult \in CredentialValidationResult : ErrorValidated(validationResult)
  \/ \E validationResult \in CredentialValidationResult : ReconnValidated(validationResult)
  \/ \E i \in DOMAIN calls : ConnectionInfo(i)
  \/ \E i \in DOMAIN calls, agentSessionId \in Sessions : AgentConnected(i, agentSessionId)
  \/ \E i \in DOMAIN calls, agentSessionId \in Sessions : AgentDisconnected(i, agentSessionId)

Spec == Init /\ [][Next]_vars

\* ------------------------------------------------ the dispatcher at work
\* A Snappjack that does not reconnect by itself, with or without an
\* explicit requireAuthHeader: the application connects when no attempt is
\* under way, the socket opens and closes, messages arrive, tool handlers
\* settle and the application registers tools.
DispatchInit ==
  /\ autoReconnect = FALSE
  /\ maxReconnectAttempts = 0
  /\ reconnectInterval = DefaultReconnectInterval
  /\ testMode = "undefined"
  /\ toolRegistry = [name \in ToolNames |-> "none"]
  /\ validators = [name \in ToolNames |-> FALSE]
  /\ requireAuthHeader \in {"undefined", "true"}
  /\ Constructed

\* the tools the application registers: one with a handler, one without
Tools == {[name |-> "echo", handler |-> TRUE], [name |-> "ghost", handler |-> FALSE]}

Idle == \A j \in DOMAIN calls : calls[j].rs = "CLOSED"

DispatchNext ==
  \/ Idle /\ AppConnect
  \/ \E i \in DOMAIN calls : TokenResolve(i)
  \/ \E i \in DOMAIN calls : SocketOpen(i)
  \/ \E i \in DOMAIN calls : SocketClose(i, SERVER_ERROR, FALSE)
  \/ \E i \in DOMAIN calls, message \in Messages : Receive(i, message)
  \/ \E i \in DOMAIN calls : ReceiveUnparsable(i)
  \/ \E call \in toolCalls, result \in HandlerResult : HandlerSettles(call, result)
  \/ \E tool \in Tools : RegisterTool(tool.name, tool.handler)

DispatchSpec == DispatchInit /\ [][DispatchNext]_vars

\* ------------------------------------- the dispatcher on overlapping calls
\* The same Snappjack when the application may call connect() again while
\* an earlier call is still connecting: the messages are a connection-info
\* whose requireAuthHeader differs from an explicit one, and the calls of
\* one agent session to the tool "echo".
OverlapMessages ==
  {ConnectionInfoMessage(TRUE, "false"),
   ToolCallMessage("absent", "req-1", "echo", {}, "agent-session")}

OverlapNext ==
  \/ AppConnect
  \/ \E i \in DOMAIN calls : TokenResolve(i)
  \/ \E i \in DOMAIN calls : SocketOpen(i)
  \/ \E i \in DOMAIN calls : SocketClose(i, SERVER_ERROR, FALSE)
  \/ \E i \in DOMAIN calls, message \in OverlapMessages : Receive(i, message)
  \/ \E call \in toolCalls, result \in HandlerResult : HandlerSettles(call, result)
  \/ RegisterTool("echo", TRUE)

OverlapSpec == DispatchInit /\ [][OverlapNext]_vars

\* ------------------------------------------------------------------ claims
ErrorEvents == {last.errs[k] : k \in DOMAIN last.errs}

\* C1: at every moment the manager owns at most one live (connecting or
\* open) socket, however connect() calls, timer firings, token-provider
\* completions, connect timeouts and socket events interleave.
AtMostOneLiveSocket ==
  Cardinality({i \in DOMAIN calls : calls[i].rs \in {"CONNECTING", "OPEN"}}) <= 1

\* C2: at every moment at most one reconnection timer is pending, whichever
\* of connect()'s failure path, the close handler and the reconnection-error
\* handler armed it.
AtMostOnePendingTimer ==
  Cardinality(timers) <= 1

\* a failure path has just armed a timer, and it is the one the manager holds
TimerArmed ==
  /\ last.sched
  /\ last.op = "tokenReject"
  /\ timers = {reconnectTimer}

\* C3 (as stated): whenever a call to connect() resolves, the status is
\* 'connected' and reconnectAttempts is 0.
ConnectResolvesConnected ==
  (last.op \in {"connect", "open"} /\ last.settle = "resolved")
    => (status = "connected" /\ reconnectAttempts = 0)

\* C3 (amended): whenever a call to connect() resolves through the open event
\* of the socket it created, the status is 'connected' and reconnectAttempts
\* is 0.
OpenResolvesConnected ==
  (last.op = "open" /\ last.settle = "resolved")
    => (status = "connected" /\ reconnectAttempts = 0)

\* the connect() of a scheduled retry resolves through its open event
RetryResolved ==
  last.op = "open" /\ last.settle = "resolved" /\ last.origin = "timer"

\* C4: whenever the status is 'error', no reconnection timer is pending (so
\* no connection attempt starts on its own before the application calls
\* connect()).
ErrorIsTerminal ==
  status = "error" => timers = {}

\* a scheduled retry has just failed with the attempts used up
Exhausted ==
  last.origin = "timer" /\ reconnectAttempts >= maxReconnectAttempts

\* the retry failed by the rejection of its connect(), classified at once or
\* after the credential validation
FailedByRejection ==
  \/ last.settle = "rejected" /\ last.validation = "none"
  \/ last.op = "reconnValidated"

\* the retry failed by an abnormal or server-error close of its socket,
\* classified at once
FailedByClose ==
  last.op = "close" /\ last.validation = "none"
    /\ last.code \in {ABNORMAL_CLOSURE, SERVER_ERROR}

PolicyCloseStops ==
  (last.op = "close" /\ last.origin # "disconnect"
     /\ last.code \in {POLICY_VIOLATION, PROTOCOL_ERROR})
    => (status = "error" /\ AuthFailed \in ErrorEvents /\ timers = {})

\* C7: when the socket closes with code 1006 after a credential was observed
\* and the validation reports it invalid, the final status is 'error', an
\* auth_failed error is emitted and no reconnection is scheduled.
InvalidCredentialStops ==
  (last.op = "close" /\ last.code = ABNORMAL_CLOSURE /\ last.validation = "invalid")
    => (status = "error" /\ AuthFailed \in ErrorEvents /\ timers = {})

\* C8: when the socket closes with code 1006 after a credential was observed
\* and the validation answers 'unreachable' or 'valid', the status becomes
\* 'disconnected' and, if autoReconnect is on and attempts remain, exactly
\* one reconnection is scheduled.
TransientCloseReconnects ==
  (last.op = "close" /\ last.code = ABNORMAL_CLOSURE
     /\ last.validation \in {"valid", "unreachable"})
    => /\ status = "disconnected"
       /\ (autoReconnect /\ reconnectAttempts < maxReconnectAttempts)
            => (last.sched /\ Cardinality(timers) = 1)

\* the validation endpoint was unreachable and the close handler armed a timer
UnreachableRescheduled ==
  /\ last.op = "close"
  /\ last.code = ABNORMAL_CLOSURE
  /\ last.validation = "unreachable"
  /\ last.sched

\* C9: when the socket closes with code 1006 and no credential was ever
\* observed, no validation request is made, the close is classified
\* server_unreachable and retryable (no error event), and a reconnection is
\* scheduled if and only if autoReconnect is on and
\* reconnectAttempts < maxReconnectAttempts.
UnverifiedCloseReconnects ==
  (last.op = "close" /\ last.origin # "disconnect"
     /\ last.code = ABNORMAL_CLOSURE /\ ~receivedUserApiKey)
    => /\ last.validation = "none"
       /\ closeWait = 0
       /\ last.errs = <<>>
       /\ timers # {} <=> (autoReconnect /\ reconnectAttempts < maxReconnectAttempts)

\* C10: after the socket closes with code 1000 the status is 'disconnected'
\* and no reconnection is scheduled, even when autoReconnect is on and
\* attempts remain.
NormalCloseStops ==
  (last.op = "close" /\ last.code = NORMAL_CLOSURE)
    => (status = "disconnected" /\ timers = {})

\* a disconnect() call has just resolved: at once when the socket was not
\* open, else with the close event of the socket it closed
DisconnectResolved ==
  \/ last.op = "disconnect" /\ last.settle = "resolved"
  \/ last.op = "close" /\ last.origin = "disconnect"

\* C11: once a disconnect() call has resolved, no reconnection timer is
\* pending and no socket is created for a scheduled retry, unless the
\* application calls connect() again; stated for the turn that follows the
\* resolution.
DisconnectStopsReconnection ==
  [][(DisconnectResolved /\ ~(last'.op = "connect" /\ last'.origin = "app"))
       => (timers' = {} /\ ~(last'.op = "socket" /\ last'.origin = "timer"))]_vars

\* C12: the status reflects the channel: whenever the status is 'connected'
\* or 'bridged' the manager holds an open socket.  Any socket the manager
\* created counts, and so does one that is closing and has not delivered its
\* close event.
StatusReflectsChannel ==
  status \in {"connected", "bridged"}
    => \E i \in DOMAIN calls : calls[i].rs \in {"OPEN", "CLOSING"}

\* C13: with autoReconnect disabled no reconnection timer is ever scheduled
\* and every connect() call, hence every socket, comes from the application,
\* whatever failures, socket errors and closes happened.
NoReconnectWhenDisabled ==
  ~autoReconnect =>
    /\ timers = {}
    /\ reconnectTimer = 0
    /\ ~last.sched
    /\ last.origin # "timer"
    /\ \A i \in DOMAIN calls : calls[i].promise # "timer"

\* autoReconnect is off and a socket has just closed abnormally with
\* attempts remaining
DisabledAbnormalClose ==
  /\ ~autoReconnect
  /\ reconnectAttempts < maxReconnectAttempts
  /\ last.op = "close"
  /\ last.code = ABNORMAL_CLOSURE
  /\ last.validation \in {"none", "unreachable"}
  /\ status = "disconnected"

\* C14: send() called while the manager has no socket, or a socket that is
\* not open, throws 'WebSocket is not connected' within the call and hands
\* nothing to a socket; the call leaves no timer and no pending work behind.
SendNotConnectedThrows ==
  (last.op = "send" /\ ~IsOpen(Cur)) => last.settle = "thrown"

\* send() was called while the manager's socket was still connecting or
\* closing
SendOnUnopenedSocket ==
  /\ last.op = "send"
  /\ ws # 0
  /\ calls[ws].rs \in {"CONNECTING", "CLOSING"}

\* C15: every connect() call settles.  A socket that has delivered its close
\* event runs no further callback and its connection timeout is cleared, so
\* the call that created it must have resolved or rejected by the time
\* that close event is handled.
ConnectSettledAtClose ==
  (last.op = "close" /\ last.origin # "disconnect")
    => last.origin \notin {"app", "timer"}

\* the token provider has just rejected in a connect() call made by the
\* application
AppTokenRejected == last.op = "tokenReject" /\ last.origin = "app"

RetryTokenRejected == last.op = "tokenReject" /\ last.origin = "timer"

\* the chain has stopped on an authentication failure
StoppedOnAuthFailure ==
  /\ last.errs = <<AuthFailed>>
  /\ AuthFailed.canResetCredentials
  /\ status = "error"
  /\ timers = {}

\* C17 as stated: a scheduled attempt that fails with a text carrying an
\* auth signature stops the chain: auth_failed with canResetCredentials is
\* emitted, the status is 'error' and no attempt is scheduled.
AuthTextStopsChain ==
  (RetryTokenRejected /\ AuthSignature(last.message)) => StoppedOnAuthFailure

\* C17: a scheduled attempt that fails with a text carrying an auth signature
\* and no network, DNS or timeout signature stops the chain at once, whatever
\* budget remains: auth_failed with canResetCredentials is emitted, the status
\* is 'error' and no attempt is scheduled.
AuthOnlyTextStopsChain ==
  (RetryTokenRejected /\ AuthSignature(last.message) /\ ~NetworkSignature(last.message))
    => StoppedOnAuthFailure

\* a retry failed with an auth text while attempts remained
AuthFailureWithBudgetLeft ==
  /\ RetryTokenRejected
  /\ last.message = "auth"
  /\ 0 < reconnectAttempts
  /\ reconnectAttempts < maxReconnectAttempts
  /\ status = "error"

\* a scheduled reconnection attempt has just failed with an error that
\* classifyReconnectionError takes for transient: a network text, a text
\* without signature when no credential was observed, or a validation that
\* answered 'valid' or 'unreachable'
RetryFailedTransiently ==
  \/ /\ last.origin = "timer"
     /\ last.settle = "rejected"
     /\ last.validation = "none"
     /\ \/ last.op \in {"error", "timeout"}
        \/ last.op = "tokenReject" /\ NetworkSignature(last.message)
        \/ last.op = "tokenReject" /\ last.message = "other"
  \/ last.op = "reconnValidated" /\ last.validation \in {"valid", "unreachable"}

FinalErrors == {k \in DOMAIN last.errs : last.errs[k] = ReconnectFailed}

\* C18: when a scheduled attempt fails with a transient error, another
\* attempt is scheduled if reconnectAttempts < maxReconnectAttempts;
\* otherwise no timer is left and exactly one connection_failed error with
\* canRetry false is emitted, whose message gives the configured number of
\* attempts.
TransientFailureRetriesOrStops ==
  RetryFailedTransiently =>
    IF reconnectAttempts < maxReconnectAttempts
      THEN last.sched /\ timers = {reconnectTimer} /\ FinalErrors = {}
      ELSE /\ timers = {}
           /\ Cardinality(FinalErrors) = 1
           /\ \A k \in FinalErrors :
                /\ last.errs[k].type = "connection_failed"
                /\ ~last.errs[k].canRetry
                /\ last.errs[k].attempts = maxReconnectAttempts
           /\ status = "error"

\* a retry failed transiently with budget left and the next one was armed
TransientFailureRearmed ==
  /\ RetryFailedTransiently
  /\ last.op = "tokenReject"
  /\ 0 < reconnectAttempts
  /\ reconnectAttempts < maxReconnectAttempts
  /\ timers # {}

\* C19: with autoReconnect enabled, when the socket of a scheduled attempt
\* opens, the status is 'connected', reconnectAttempts is back to 0 and no
\* reconnection is left pending.
RetryOpenEndsChain ==
  (autoReconnect /\ last.op = "open" /\ last.origin = "timer")
    => (status = "connected" /\ reconnectAttempts = 0 /\ timers = {})

\* C20: an unrecoverable condition is reported by exactly one 'error' event
\* (Snappjack forwards each 'error' of the manager as one 'error' of its
\* own), also when the failing socket delivers an error event and a close
\* event: an authentication failure that handleError has just reported is
\* not reported again by handleClose on the next turn.
AuthFailureReportedOnce ==
  [][~(/\ last.op = "errorValidated"
       /\ AuthFailed \in ErrorEvents
       /\ last'.op = "close"
       /\ last'.validation = "invalid"
       /\ AuthFailed \in ErrorEvents')]_vars

\* C21: a transport failure is surfaced as an 'error' event only when it is
\* not retryable or when the retry budget is used up: while autoReconnect is
\* on and attempts remain, no turn emits an error that is flagged canRetry.
RetryableFailureIsSilent ==
  (autoReconnect /\ reconnectAttempts < maxReconnectAttempts)
    => \A e \in ErrorEvents : ~e.canRetry

\* ------------------------------------------- the dispatcher left to itself
\* A Snappjack that reconnects by itself, under the one guarantee the event
\* loop gives: a reconnection timer that is armed fires.  Whether the token
\* provider answers, the socket opens or closes, or the application calls
\* again is up to the environment.
LiveInit ==
  /\ autoReconnect = TRUE
  /\ maxReconnectAttempts = MaxMaxReconnectAttempts
  /\ reconnectInterval = DefaultReconnectInterval
  /\ testMode = "undefined"
  /\ toolRegistry = [name \in ToolNames |-> "none"]
  /\ validators = [name \in ToolNames |-> FALSE]
  /\ requireAuthHeader = "undefined"
  /\ Constructed

TimerFires == \E t \in timers : ReconnectTimerFires(t)

LiveNext ==
  \/ Idle /\ AppConnect
  \/ \E i \in DOMAIN calls : TokenResolve(i)
  \/ \E i \in DOMAIN calls : SocketOpen(i)
  \/ \E i \in DOMAIN calls : SocketClose(i, SERVER_ERROR, FALSE)
  \/ TimerFires
  \/ \E tool \in Tools : RegisterTool(tool.name, tool.handler)

LiveSpec == LiveInit /\ [][LiveNext]_vars /\ WF_vars(TimerFires)

\* ------------------------------------------------------ dispatcher claims
\* the replies to tool calls among what the latest turn sent
Replies == {k \in DOMAIN last.sent : last.sent[k].message.kind \in {"result", "error"}}

\* the session of the request the latest turn answered
AnsweredSession ==
  IF last.op = "handler" THEN last.answers.agentSessionId ELSE last.inbound.agentSessionId

\* C22: every reply to a tool call, success or business error, carries the
\* agentSessionId of the request it answers, also when a call of another
\* agent session arrived while the handler of the first was pending.
ReplyCarriesRequestSession ==
  \A k \in Replies : last.sent[k].message.agentSessionId = AnsweredSession

\* a turn in which a tool call request reached handleToolCall
ToolCallTurn ==
  /\ last.op = "message"
  /\ last.inbound.type = "absent"
  /\ isToolCallRequest(last.inbound)

\* C23: a tool call that names a tool which is not registered, or is
\* registered without a handler, is answered with one protocol error reply
\* of code -32601 that carries the request id; no handler is invoked and no
\* result reply is sent.
UnknownToolGetsProtocolError ==
  (ToolCallTurn /\ toolRegistry[last.inbound.name] # "handler")
    => /\ Len(last.sent) = 1
       /\ last.sent[1].message.kind = "error"
       /\ last.sent[1].message.result.code = MethodNotFound
       /\ last.sent[1].message.id = last.inbound.id
       /\ ~last.invoked

\* a call of a tool registered without handler, the error reply written
HandlerlessToolCalled ==
  /\ ToolCallTurn
  /\ toolRegistry[last.inbound.name] = "definition"
  /\ last.sent[1].outcome = "written"

\* a call of a tool that has a handler, with arguments its validator rejects
InvalidArgumentsTurn ==
  /\ ToolCallTurn
  /\ toolRegistry[last.inbound.name] = "handler"
  /\ last.inbound.arguments # {}

\* C24: inputs are validated before the handler is called: when the
\* arguments of a call to a tool with a handler fail validation, the handler
\* is not invoked and the one reply is a result flagged isError, not a
\* protocol error, whose text lists every violated path with its message.
InvalidArgumentsNeverReachHandler ==
  InvalidArgumentsTurn
    => /\ ~last.invoked
       /\ Len(last.sent) = 1
       /\ last.sent[1].message.kind = "result"
       /\ last.sent[1].message.id = last.inbound.id
       /\ last.sent[1].message.result.isError
       /\ \A err \in last.inbound.arguments :
            \E detail \in last.sent[1].message.result.details :
              detail[2] = err[2] /\ detail[1] \in {err[1], "root"}

\* invalid arguments answered on the open socket
InvalidArgumentsAnswered ==
  /\ InvalidArgumentsTurn
  /\ last.sent[1].outcome = "written"
  /\ Cardinality(last.sent[1].message.result.details) = 2

\* a turn in which a tool handler threw, rejected, or returned something
\* without a content list
HandlerFailedTurn ==
  /\ last.op = "handler"
  /\ last.result \in {"throws", "null", "nonObject", "noContent"}

\* C25: a failure of the tool never becomes a transport error: when a
\* handler throws, rejects or returns anything without a content list, the
\* one reply is a result flagged isError, never a protocol error, for the
\* request the handler ran for.
ToolFailureIsBusinessError ==
  HandlerFailedTurn
    => /\ Len(last.sent) = 1
       /\ last.sent[1].message.kind = "result"
       /\ last.sent[1].message.result.isError
       /\ last.sent[1].message.id = last.answers.id

\* C25, second half: the turn that answers a failed handler leaves the
\* connection's status, its socket and the sockets' state as they were.
ToolFailureLeavesConnection ==
  [][(last'.op = "handler" /\ last'.result \in {"throws", "null", "nonObject", "noContent"})
       => (status' = status /\ ws' = ws /\ calls' = calls /\ timers' = timers)]_vars

\* C25 as a whole
ToolFailureStaysOffTransport ==
  []ToolFailureIsBusinessError /\ ToolFailureLeavesConnection

\* a handler that threw, answered on the open socket
ThrowingHandlerAnswered ==
  /\ last.op = "handler"
  /\ last.result = "throws"
  /\ last.sent[1].outcome = "written"
  /\ status = "connected"

\* the sends of the latest turn that threw, and its dispatcher 'error' events
FailedSends == {k \in DOMAIN last.sent : last.sent[k].outcome = "thrown"}

DispatcherErrors == {k \in DOMAIN last.events : last.events[k].type = "error"}

\* C26 as stated: every send that fails while an event is handled (the
\* registration on open, a reply to a tool call, any other send an inbound
\* message triggers) is surfaced as a dispatcher 'error' event.
FailedSendSurfaces ==
  FailedSends # {} => DispatcherErrors # {}

\* C26 as the code has it: a failed registration or reply is surfaced as one
\* dispatcher 'error' event; a failed update-auth-requirement is caught and
\* logged without any 'error' event, and the connection-info events follow.
FailedSendSurfacesButAuthUpdate ==
  \A k \in FailedSends :
    IF last.sent[k].message.kind = "update-auth-requirement"
      THEN /\ DispatcherErrors = {}
           /\ \E j \in DOMAIN last.events : last.events[j].type = "connection-info-updated"
      ELSE Cardinality(DispatcherErrors) = 1

\* the reply of a settled handler could not be sent: the socket had gone
ReplyFailedAndSurfaced ==
  /\ last.op = "handler"
  /\ FailedSends # {}
  /\ DispatcherErrors # {}

\* C27: each time a socket opens, on the first connect and on every
\* reconnect, the dispatcher sends exactly one tools-registration message
\* on that socket, with the definitions of all tools registered at the time
\* and no handlers; being sent in the turn of the open event, it precedes
\* every other message on the socket.
OpenSendsRegistration ==
  last.op = "open"
    => /\ Len(last.sent) = 1
       /\ last.sent[1].message.kind = "tools-registration"
       /\ last.sent[1].message.tools = {[name |-> name] : name \in {n \in ToolNames : has(toolRegistry, n)}}
       /\ last.sent[1].outcome = "written"
       /\ last.sent[1].to = last.socket

\* registerTool("echo") was called while the connection was open
EchoRegisteredWhileOpen ==
  /\ last.op = "registerTool"
  /\ last.message = "echo"
  /\ IsOpen(Cur)

\* a tools-registration message that lists "echo" was written to a socket
EchoAnnounced ==
  \E k \in DOMAIN last.sent :
    /\ last.sent[k].message.kind = "tools-registration"
    /\ [name |-> "echo"] \in last.sent[k].message.tools
    /\ last.sent[k].outcome = "written"

\* C28: a tool registered with registerTool() while the connection is open
\* becomes available without reconnecting: a tools-registration message
\* that includes it is eventually sent.
RegisteredToolIsAnnounced ==
  EchoRegisteredWhileOpen ~> EchoAnnounced

\* the one domain event of an agent message
AgentEvent(message) == <<[type |-> message.type, data |-> message.agentSessionId]>>

\* C29: an agent-connected message sets the status to 'bridged' and makes
\* its session the current one; an agent-disconnected message of the
\* current session returns the status to 'connected' and clears the current
\* session, one of another session leaves both as they were; each emits
\* exactly one event, agent-connected or agent-disconnected.
AgentMessagesDriveLifecycle ==
  [][(last'.op = "message" /\ last'.inbound.type \in {"agent-connected", "agent-disconnected"})
       => /\ last'.events = AgentEvent(last'.inbound)
          /\ IF last'.inbound.type = "agent-connected"
               THEN /\ status' = "bridged"
                    /\ currentAgentSessionId' = last'.inbound.agentSessionId
             ELSE IF currentAgentSessionId = last'.inbound.agentSessionId
               THEN /\ status' = "connected"
                    /\ currentAgentSessionId' = "null"
             ELSE /\ status' = status
                  /\ currentAgentSessionId' = currentAgentSessionId]_vars

\* the agent-disconnected of another session arrived while one is attached
OtherAgentDisconnected ==
  /\ last.op = "message"
  /\ last.inbound.type = "agent-disconnected"
  /\ currentAgentSessionId \notin {"null", last.inbound.agentSessionId}
  /\ status = "bridged"

\* the events of a type among those the latest turn emitted
EventsOf(types) == {k \in DOMAIN last.events : last.events[k].type \in types}

\* the routes whose effect the latest turn shows: a tool call answered or
\* handed to its handler, an agent event, the connection-info event, the
\* generic 'message' event
RoutesTaken ==
  {route \in {"tool", "agent", "connection-info", "message"} :
     CASE route = "tool" -> last.invoked \/ Replies # {}
       [] route = "agent" -> EventsOf({"agent-connected", "agent-disconnected"}) # {}
       [] route = "connection-info" -> EventsOf({"connection-info-updated"}) # {}
       [] OTHER -> EventsOf({"message"}) # {}}

\* a generic route emits the raw message exactly once
GenericOnce ==
  "message" \in RoutesTaken
    => /\ Cardinality(EventsOf({"message"})) = 1
       /\ \A k \in EventsOf({"message"}) : last.events[k].data = last.inbound

\* C30 as stated: every message takes exactly one route, the first that
\* applies of: tool call for the shape of a tool invocation, else the
\* lifecycle for an agent marker, else the connection-info event for a
\* connection-info with a credential, else one generic 'message' event.
ShapeFirstRoute(message) ==
  IF isToolCallRequest(message) THEN "tool"
  ELSE IF message.type \in {"agent-connected", "agent-disconnected"} THEN "agent"
  ELSE IF message.type = "connection-info" /\ message.userApiKey THEN "connection-info"
  ELSE "message"

OneRouteShapeFirst ==
  last.op = "message" => (RoutesTaken = {ShapeFirstRoute(last.inbound)} /\ GenericOnce)

\* C30 as the code has it: a message with a 'type' property is routed by
\* its type (connection-info: the connection-info events when it carries a
\* credential, no route at all when it does not; an agent marker: the
\* lifecycle; any other type: one generic 'message' event) whether or not
\* it has the shape of a tool invocation; a message without 'type' is a
\* tool call when it has that shape and one generic 'message' event if not.
TypeFirstRoutes(message) ==
  IF message.type = "connection-info"
    THEN IF message.userApiKey THEN {"connection-info"} ELSE {}
  ELSE IF message.type \in {"agent-connected", "agent-disconnected"} THEN {"agent"}
  ELSE IF message.type # "absent" THEN {"message"}
  ELSE IF isToolCallRequest(message) THEN {"tool"}
  ELSE {"message"}

OneRouteTypeFirst ==
  last.op = "message" => (RoutesTaken = TypeFirstRoutes(last.inbound) /\ GenericOnce)

\* a message with a type and the shape of a tool call went the generic way
TypedToolCallPassedOn ==
  /\ last.op = "message"
  /\ last.inbound.type = "custom"
  /\ isToolCallRequest(last.inbound)
  /\ RoutesTaken = {"message"}

\* ---------------------------------------------------------------- C31
\* C31: a frame that is not valid JSON is dropped: the turn that receives it
\* emits no 'message' and no 'error' event, sends nothing, leaves the status
\* and the remembered userApiKey as they were, and the socket it came from
\* stays open and stays the manager's socket if it was.
UnparsableFrameDropped ==
  [][last'.op = "frame" =>
       /\ last'.events = <<>> /\ last'.errs = <<>> /\ last'.sent = <<>>
       /\ status' = status
       /\ receivedUserApiKey' = receivedUserApiKey
       /\ ws' = ws
       /\ calls'[last'.socket].rs = "OPEN"
       /\ toolCalls' = toolCalls]_vars

\* an unparsable frame arrived on the connected socket after a userApiKey
\* had been remembered
UnparsableFrameArrived ==
  /\ last.op = "frame"
  /\ status = "connected"
  /\ ws = last.socket
  /\ receivedUserApiKey

\* ------------------------------------------------- the registry on its own
\* A ToolRegistry used directly: register, setHandler, clear and validate in
\* any order, with schemas that compile and schemas that do not.
RegistryInit ==
  /\ autoReconnect = FALSE
  /\ maxReconnectAttempts = 0
  /\ reconnectInterval = DefaultReconnectInterval
  /\ testMode = "undefined"
  /\ toolRegistry = [name \in ToolNames |-> "none"]
  /\ validators = [name \in ToolNames |-> FALSE]
  /\ requireAuthHeader = "undefined"
  /\ Constructed

manager ==
  <<ws, status, reconnectTimer, timers, reconnectAttempts, receivedUserApiKey,
    currentAgentSessionId, calls, closeWait, errorWait, reconnWait>>

\* register(tool) (lines 2279-2302); compiles tells whether ajv.compile
\* accepts the tool's inputSchema.
Register(name, withHandler, compiles) ==
  /\ toolRegistry' = register(toolRegistry, name, withHandler)
  /\ validators' = cacheValidator(validators, name, compiles)
  /\ registered' = registered \cup {name}
  /\ last' = [NoLast EXCEPT !.op = "register", !.message = name,
                            !.result = IF compiles THEN "compiled" ELSE "throws"]
  /\ UNCHANGED <<config, manager, inputSchema, strictSchema, lastToolCallAgentSessionId,
                 toolCalls, requireAuthHeader>>

\* setHandler(toolName, handler) (lines 2379-2392)
SetHandler(name) ==
  /\ toolRegistry' = setHandler(toolRegistry, name)
  /\ registered' = registered \cup {name}
  /\ last' = [NoLast EXCEPT !.op = "setHandler", !.message = name]
  /\ UNCHANGED <<config, manager, validators, inputSchema, strictSchema,
                 lastToolCallAgentSessionId, toolCalls, requireAuthHeader>>

\* clear() (lines 2397-2400)
Clear ==
  /\ toolRegistry' = clear(toolRegistry)
  /\ validators' = clearValidators(validators)
  /\ registered' = {}
  /\ inputSchema' = Unset
  /\ strictSchema' = Unset
  /\ last' = [NoLast EXCEPT !.op = "clear"]
  /\ UNCHANGED <<config, manager, lastToolCallAgentSessionId, toolCalls, requireAuthHeader>>

\* validate(name, args) (lines 2344-2372)
Validate(name, arguments) ==
  /\ LET validationResult == validate(validators, name, arguments)
     IN  last' = [NoLast EXCEPT !.op = "validate", !.message = name,
                               !.isValid = validationResult.isValid,
                               !.errors = validationResult.errors]
  /\ UNCHANGED <<config, manager, dispatcher>>

RegistryNext ==
  \/ \E name \in ToolNames, withHandler \in BOOLEAN, compiles \in BOOLEAN :
       Register(name, withHandler, compiles)
  \/ \E name \in ToolNames : SetHandler(name)
  \/ Clear
  \/ \E name \in ToolNames, arguments \in SUBSET Violations : Validate(name, arguments)

RegistrySpec == RegistryInit /\ [][RegistryNext]_vars

\* ---------------------------------------------------------------- C32
\* C32: after any sequence of register, setHandler and clear calls, a name
\* that was not given to the registry since it was last empty has
\* has(name) false and neither handler nor definition; size() is the number
\* of distinct names given since then, and right after clear() it is 0.
UnregisteredNamesAbsent ==
  /\ \A name \in ToolNames \ registered :
       /\ ~has(toolRegistry, name)
       /\ ~getHandler(toolRegistry, name)
       /\ getDefinition(toolRegistry, name) = {}
  /\ size(toolRegistry) = Cardinality(registered)
  /\ last.op = "clear" => size(toolRegistry) = 0

\* setHandler has just created the tool "echo" while "ghost" was never
\* given to the registry
OneNameRegistered ==
  /\ last.op = "setHandler"
  /\ registered = {"echo"}
  /\ has(toolRegistry, "echo")
  /\ ~has(toolRegistry, "ghost")
  /\ size(toolRegistry) = 1

\* ---------------------------------------------------------------- C33
\* C33: right after a register(tool) whose schema failed to compile, the
\* tool is stored under its name and no validator is cached for the name,
\* whatever was registered under it before, so that validate() answers
\* valid by default.
FailedCompileLeavesNoValidator ==
  (last.op = "register" /\ last.result = "throws") =>
    /\ has(toolRegistry, last.message)
    /\ ~validators[last.message]

\* --------------------------------------------- schemas and their validators
\* The registry with the schemas spelled out. A schema is a record as the
\* JSON schema is an object: 'type' always, 'properties' and 'required' or
\* 'items' where the schema declares them. A value is a string (one that
\* reads as a number or one that does not), a number, an object or an array.
MaxDepth == 3

Str == [type |-> "string"]

Num == [type |-> "number"]

\* the property a schema declares and the one no schema declares
Declared == "a"

Undeclared == "x"

RECURSIVE SchemasOf(_)
SchemasOf(depth) ==
  IF depth = 0
    THEN {Str, Num, [type |-> "object"], [type |-> "array"]}
    ELSE LET sub == SchemasOf(depth - 1)
         IN  sub
             \cup {[type |-> "object", properties |-> [key \in {Declared} |-> prop],
                    required |-> required] : prop \in sub, required \in SUBSET {Declared}}
             \cup {[type |-> "array", items |-> items] : items \in sub}

\* Tool.inputSchema: an object schema
InputSchemas == {schema \in SchemasOf(MaxDepth) : schema.type = "object"}

Text == [t |-> "string", numeric |-> FALSE]

RECURSIVE ValuesOf(_)
ValuesOf(depth) ==
  IF depth = 0
    THEN {Text, [t |-> "string", numeric |-> TRUE], [t |-> "number"]}
    ELSE LET sub == ValuesOf(depth - 1)
             propsOf == {[key \in keys |-> Text] : keys \in SUBSET {Undeclared}}
                        \cup {[key \in keys \cup {Declared} |->
                                 IF key = Declared THEN value ELSE Text] :
                                value \in sub, keys \in SUBSET {Undeclared}}
         IN  ValuesOf(0)
             \cup {[t |-> "object", props |-> props] : props \in propsOf}
             \cup {[t |-> "array", elems |-> <<>>]}
             \cup {[t |-> "array", elems |-> <<value>>] : value \in sub}

\* the arguments of a tools/call: an object
Arguments == {value \in ValuesOf(MaxDepth) : value.t = "object"}

\* { ...record, [key]: value }
Put(record, key, value) ==
  [k \in DOMAIN record \cup {key} |-> IF k = key THEN value ELSE record[k]]

\* enforceStrictSchema(schema) (lines 2412-2437); every schema here is an
\* object, so the early return of line 2413 is not taken
RECURSIVE enforceStrictSchema(_)
enforceStrictSchema(schema) ==
  LET strictObject ==
        IF schema.type = "object" /\ "properties" \in DOMAIN schema
          THEN Put(Put(schema, "additionalProperties", FALSE), "properties",
                   [key \in DOMAIN schema.properties |->
                      enforceStrictSchema(schema.properties[key])])
          ELSE schema
  IN  IF strictObject.type = "array" /\ "items" \in DOMAIN strictObject
        THEN Put(strictObject, "items", enforceStrictSchema(strictObject.items))
        ELSE strictObject

IndexText == <<"0", "1", "2", "3">>

\* The errors the validator ajv.compile(schema) reports for data under the
\* options of the constructor (coerceTypes, allErrors): each error is the
\* instance path and the keyword that failed. A number is coerced to a
\* string, and a string that reads as a number to a number.
RECURSIVE ajvErrors(_, _, _)
ajvErrors(schema, data, instancePath) ==
  LET typeOk ==
        CASE schema.type = "string" -> data.t \in {"string", "number"}
          [] schema.type = "number" ->
               data.t = "number" \/ (data.t = "string" /\ data.numeric)
          [] schema.type = "object" -> data.t = "object"
          [] schema.type = "array" -> data.t = "array"
      present == IF data.t = "object" THEN DOMAIN data.props ELSE {}
      declared == IF "properties" \in DOMAIN schema THEN DOMAIN schema.properties ELSE {}
      required ==
        IF data.t = "object" /\ "required" \in DOMAIN schema
          THEN {<<instancePath, "required">> : key \in schema.required \ present}
          ELSE {}
      additionalProperties ==
        IF data.t = "object" /\ "additionalProperties" \in DOMAIN schema
             /\ ~schema.additionalProperties
          THEN {<<instancePath, "additionalProperties">> : key \in present \ declared}
          ELSE {}
      properties ==
        UNION {ajvErrors(schema.properties[key], data.props[key],
                         instancePath \o "/" \o key) : key \in present \cap declared}
      items ==
        IF data.t = "array" /\ "items" \in DOMAIN schema
          THEN UNION {ajvErrors(schema.items, data.elems[i],
                                instancePath \o "/" \o IndexText[i]) :
                      i \in DOMAIN data.elems}
          ELSE {}
  IN  (IF typeOk THEN {} ELSE {<<instancePath, "type">>})
      \cup required \cup additionalProperties \cup properties \cup items

SchemaInit == RegistryInit

\* register(tool) (lines 2279-2302) of a tool "echo" without handler whose
\* inputSchema is spelled out; these schemas compile.
RegisterSchema(schema) ==
  /\ toolRegistry' = register(toolRegistry, "echo", FALSE)
  /\ validators' = cacheValidator(validators, "echo", TRUE)
  /\ registered' = registered \cup {"echo"}
  /\ inputSchema' = schema
  /\ strictSchema' = enforceStrictSchema(schema)
  /\ last' = [NoLast EXCEPT !.op = "register", !.message = "echo", !.result = "compiled"]
  /\ UNCHANGED <<config, manager, lastToolCallAgentSessionId, toolCalls, requireAuthHeader>>

\* validate("echo", args) (lines 2344-2372) with the validator compiled
\* from the strict schema
ValidateArguments(args) ==
  /\ validators["echo"]
  /\ LET validationResult == validate(validators, "echo", ajvErrors(strictSchema, args, ""))
     IN  last' = [NoLast EXCEPT !.op = "validate", !.message = "echo", !.args = args,
                               !.isValid = validationResult.isValid,
                               !.errors = validationResult.errors]
  /\ UNCHANGED <<config, manager, dispatcher>>

SchemaNext ==
  \/ \E schema \in InputSchemas : RegisterSchema(schema)
  \/ \E args \in Arguments : ValidateArguments(args)

SchemaSpec == SchemaInit /\ [][SchemaNext]_vars

\* ---------------------------------------------------------------- C34
\* What the declared schema asks of a value when no object may carry a
\* property its schema does not declare, at any nesting level.
RECURSIVE Conforms(_, _)
Conforms(schema, data) ==
  CASE schema.type = "string" -> data.t \in {"string", "number"}
    [] schema.type = "number" -> data.t = "number" \/ (data.t = "string" /\ data.numeric)
    [] schema.type = "object" ->
         /\ data.t = "object"
         /\ LET declared ==
                  IF "properties" \in DOMAIN schema THEN DOMAIN schema.properties ELSE {}
                required == IF "required" \in DOMAIN schema THEN schema.required ELSE {}
            IN  /\ DOMAIN data.props \subseteq declared
                /\ required \subseteq DOMAIN data.props
                /\ \A key \in DOMAIN data.props :
                     Conforms(schema.properties[key], data.props[key])
    [] schema.type = "array" ->
         /\ data.t = "array"
         /\ "items" \in DOMAIN schema =>
              \A i \in DOMAIN data.elems : Conforms(schema.items, data.elems[i])

\* C34: validate(name, args) of a registered tool answers isValid=true
\* exactly when args satisfies the declared schema and carries no
\* undeclared property at any nesting level, and an invalid answer brings
\* at least one path/message pair.
ValidateIsStrict ==
  (last.op = "validate" /\ last.args # Unset) =>
    /\ last.isValid <=> Conforms(inputSchema, last.args)
    /\ ~last.isValid => last.errors # {}

\* ---------------------------------------------------------------- C35
\* C35: when a socket opens, no reconnection timer stays pending, and no
\* timer fires (counting an attempt and calling connect()) while the
\* manager's socket is open.
OpenCancelsReconnectTimer ==
  /\ last.op = "open" => timers = {}
  /\ (last.op = "connect" /\ last.origin = "timer") => ~IsOpen(Cur)

\* ---------------------------------------------------------------- C36
\* C36: reconnectAttempts never exceeds maxReconnectAttempts, whatever
\* maxReconnectAttempts is and whether the retries follow closes or failed
\* connect() calls; the counter is reset only by an open and counts every
\* automatic attempt, so this bounds the attempts between two opens.
ReconnectAttemptsBounded ==
  reconnectAttempts <= maxReconnectAttempts

\* ----------------------------------------------------- the backoff delays
\* A manager that reconnects by itself, for several reconnectInterval
\* values and with testMode absent, false or true; attempts fail at the
\* token provider or by a close of the socket.
ReconnectIntervals == {1000, 5000, 20000, 40000}

BackoffInit ==
  /\ autoReconnect = TRUE
  /\ maxReconnectAttempts = MaxMaxReconnectAttempts
  /\ reconnectInterval \in ReconnectIntervals
  /\ testMode \in {"undefined", "false", "true"}
  /\ toolRegistry = [name \in ToolNames |-> "none"]
  /\ validators = [name \in ToolNames |-> FALSE]
  /\ requireAuthHeader = "undefined"
  /\ Constructed

BackoffNext ==
  \/ Idle /\ AppConnect
  \/ \E i \in DOMAIN calls : TokenResolve(i)
  \/ \E i \in DOMAIN calls : TokenReject(i, "network")
  \/ \E i \in DOMAIN calls : SocketOpen(i)
  \/ \E i \in DOMAIN calls : SocketClose(i, SERVER_ERROR, FALSE)
  \/ TimerFires

BackoffSpec == BackoffInit /\ [][BackoffNext]_vars

\* ---------------------------------------------------------------- C37
\* the delay the claim states for a timer armed at counter value attempts
StatedDelay(attempts) ==
  IF testMode = "true"
    THEN 1
    ELSE IF reconnectInterval * 2^attempts < 30000
           THEN reconnectInterval * 2^attempts
           ELSE 30000

ConnectWhileOpenIsNoOp ==
  [][(IsOpen(Cur) /\ last'.op = "connect" /\ last'.origin = "app") =>
       /\ last'.settle = "resolved"
       /\ calls' = calls
       /\ ws' = ws
       /\ status' = status
       /\ reconnectAttempts' = reconnectAttempts
       /\ reconnectTimer' = reconnectTimer /\ timers' = timers
       /\ ~last'.sched
       /\ last'.errs = <<>> /\ last'.events = <<>> /\ last'.sent = <<>>]_vars

\* the application has called connect() on a connected manager
ConnectedAgain ==
  /\ last.op = "connect"
  /\ last.origin = "app"
  /\ last.settle = "resolved"
  /\ IsOpen(Cur)
  /\ status = "connected"

\* ---------------------------------------------------------------- C39
\* the latest turn handed exactly one reply to send, an error or a result,
\* and it carries the given request id
OneReplyFor(id) ==
  /\ Cardinality(Replies) = 1
  /\ \A k \in Replies : last.sent[k].message.id = id

\* C39: every tool call request gets exactly one reply send attempt, one
\* protocol error or one result and never both, with the id of the
\* request: at once when the tool is unknown or the arguments are invalid,
\* and otherwise when its handler settles (returning content, returning
\* something malformed, or throwing), whether or not the send succeeds; no
\* other turn sends a reply, and a call leaves the pending ones only by
\* being answered.
EveryToolCallAnsweredOnce ==
  [][CASE ToolCallTurn' /\ last'.invoked ->
            /\ Replies' = {}
            /\ Invocation(last'.inbound) \notin toolCalls
            /\ toolCalls' = toolCalls \cup {Invocation(last'.inbound)}
       [] ToolCallTurn' /\ ~last'.invoked ->
            /\ OneReplyFor(last.inbound.id)'
            /\ toolCalls' = toolCalls
       [] last'.op = "handler" ->
            /\ OneReplyFor(last.answers.id)'
            /\ last'.answers \in toolCalls
            /\ toolCalls' = toolCalls \ {last'.answers}
       [] OTHER ->
            /\ Replies' = {}
            /\ toolCalls' = toolCalls]_vars

\* a handler returned content while another call was pending and the
\* socket had gone: the one reply was handed to send, which threw
ReplyAttemptedOnClosedSocket ==
  /\ last.op = "handler"
  /\ last.result = "content"
  /\ toolCalls # {}
  /\ OneReplyFor(last.answers.id)
  /\ \A k \in Replies : last.sent[k].outcome = "thrown"

\* ---------------------------------------------------------------- C40
\* the turn just taken delivered an open, message, close or error event of
\* the socket of call i
EventFrom(i) ==
  \/ /\ last'.op \in {"open", "message"}
     /\ last'.socket = i
  \/ /\ last'.op = "close"
     /\ calls[i].rs \in {"CONNECTING", "OPEN", "CLOSING"}
     /\ (i \in DOMAIN calls' => calls'[i].rs = "CLOSED")
  \/ /\ last'.op = "error"
     /\ calls[i].rs \in {"CONNECTING", "OPEN"}
     /\ i \in DOMAIN calls'
     /\ calls'[i].rs = "CLOSING"

\* C40: an open, message, close or error event of a socket that a later
\* attempt has replaced as the manager's socket changes neither the socket
\* handle, the status, reconnectAttempts nor the reconnection timer.
SupersededSocketIsIgnored ==
  [][\A i \in DOMAIN calls :
       (ws # 0 /\ ws # i /\ EventFrom(i)) =>
         /\ ws' = ws
         /\ status' = status
         /\ reconnectAttempts' = reconnectAttempts
         /\ reconnectTimer' = reconnectTimer
         /\ timers' = timers]_vars

====
